---- MODULE Spec2Model ----
(***************************************************************************)
(* Water Quality Dashboard (src/app.py).                                   *)
(*                                                                         *)
(* One Streamlit script: every user interaction re-runs it from top to     *)
(* bottom.  A run calls load_data() (memoised by st.cache_data), reads the *)
(* sidebar radio and renders the branch of the if/elif chain the radio     *)
(* names.  The model keeps the CSV file on disk, the image asset, the      *)
(* st.cache_data store and, per browser session, the widget values and the *)
(* outcome of the last run.                                                *)
(*                                                                         *)
(* Numbers are held exactly as n + h/2 (h \in {0,1}): the CSV cells are    *)
(* small integer literals, so a median is an integer or an integer and a   *)
(* half.                                                                   *)
(***************************************************************************)
EXTENDS Integers, Sequences, FiniteSets

\* ------------------------------------------------------------------ bounds
MaxRows == 4        \* data lines of a CSV file

\* ------------------------------------------------------------- cell values
NaN == [k |-> "nan", n |-> 0, h |-> 0, s |-> ""]
Num(n, h) == [k |-> "num", n |-> n, h |-> h, s |-> ""]
Str(s) == [k |-> "str", n |-> 0, h |-> 0, s |-> s]

\* The fields a CSV line may hold in a column: the empty field, integer
\* literals, text.  The label column holds 0/1 values or nothing.
Tokens(name) ==
    IF name = "Potability" THEN {"", "0", "1"}
    ELSE IF name = "Turbidity" THEN {"", "2"}
    ELSE {"", "0", "2", "x"}

\* pandas' default NA markers include the empty field.
IsNA(tok) == tok = ""

\* The literals the C parser converts to a number.
IsNumeric(tok) == tok \in {"0", "1", "2"}

ToNumber(tok) ==
    CASE tok = "0" -> 0
      [] tok = "1" -> 1
      [] tok = "2" -> 2

\* ------------------------------------------------------------------- files
DefaultPath == "data/water_potability.csv"
Paths == {DefaultPath}

Absent == [kind |-> "absent", header |-> <<>>, lines |-> <<>>]
Unreadable == [kind |-> "unreadable", header |-> <<>>, lines |-> <<>>]
Malformed == [kind |-> "malformed", header |-> <<>>, lines |-> <<>>]
Empty == [kind |-> "empty", header |-> <<>>, lines |-> <<>>]
Undecodable == [kind |-> "undecodable", header |-> <<>>, lines |-> <<>>]
Directory == [kind |-> "directory", header |-> <<>>, lines |-> <<>>]
Csv(header, lines) == [kind |-> "csv", header |-> header, lines |-> lines]

\* Header rows: one or two column names, Potability last when present, and
\* one header that repeats a name.
Headers ==
    { <<"Potability">>, <<"pH">>, <<"pH", "Potability">>,
      <<"Turbidity", "Turbidity">> }

\* The lines a file with header hd may hold: one field per column.
Lines(hd) ==
    IF Len(hd) = 1 THEN { <<a>> : a \in Tokens(hd[1]) }
    ELSE { <<a, b>> : a \in Tokens(hd[1]), b \in Tokens(hd[2]) }

\* Every header over every sequence of at most MaxRows lines.
CsvFiles ==
    { Csv(x[1], x[2]) :
        x \in UNION { {hd} \X [1..m -> Lines(hd)] : hd \in Headers, m \in 0..MaxRows } }

\* What the path may hold when read_csv fails.
Unparsable == {Absent, Unreadable, Malformed, Empty, Undecodable, Directory}

Files == Unparsable \cup CsvFiles

\* The files the dashboard is run over: failures, a file whose only column
\* is the label, files without the label (one with a gap in a text column),
\* with a complete label, with label cells missing and with a parameter
\* column that has no value.
DashFiles ==
    { Absent, Unreadable, Empty,
      Csv(<<"Potability">>, << <<"1">>, <<"0">> >>),
      Csv(<<"pH">>, << <<"2">>, <<"0">> >>),
      Csv(<<"pH", "Hardness">>, << <<"0", "x">>, <<"", "">> >>),
      Csv(<<"pH", "Potability">>, << <<"", "1">> >>),
      Csv(<<"pH", "Potability">>, << <<"0", "1">>, <<"", "0">>, <<"2", "1">> >>),
      Csv(<<"pH", "Potability">>, << <<"2", "1">>, <<"0", "">>, <<"2", "0">> >>),
      Csv(<<"pH", "Potability">>, << <<"2", "">> >>) }

\* -------------------------------------------------------------- DataFrames
None == [isNone |-> TRUE, columns |-> <<>>, dtypes |-> <<>>, rows |-> <<>>]
Frame(columns, dtypes, rows) ==
    [isNone |-> FALSE, columns |-> columns, dtypes |-> dtypes, rows |-> rows]

RECURSIVE NonBlank(_, _)
\* The subsequence of the lines that are not blank.
NonBlank(ls, width) ==
    IF ls = <<>> THEN <<>>
    ELSE IF width = 1 /\ Head(ls)[1] = ""
         THEN NonBlank(Tail(ls), width)
         ELSE <<Head(ls)>> \o NonBlank(Tail(ls), width)

\* read_csv skips blank lines (skip_blank_lines=True): in a one-column file a
\* line whose only field is empty is a blank line.
DataLines(file) == NonBlank(file.lines, Len(file.header))

\* read_csv's type inference for column c over the data lines: no line at
\* all gives object; a field that is neither a number nor NA gives object;
\* otherwise int64/float64.
InferDtype(ls, c) ==
    IF ls = <<>> THEN "object"
    ELSE IF \A i \in 1..Len(ls) : IsNA(ls[i][c]) \/ IsNumeric(ls[i][c])
         THEN "number"
         ELSE "object"

ParseCell(tok, dtype) ==
    IF IsNA(tok) THEN NaN
    ELSE IF dtype = "number" THEN Num(ToNumber(tok), 0)
    ELSE Str(tok)

\* The decimal numeral of a small count.
Numeral(k) == CASE k = 1 -> "1" [] k = 2 -> "2" [] k = 3 -> "3" [] OTHER -> "n"

\* read_csv's column names: a name that repeats an earlier name of the header
\* gets the suffix .N, N the number of earlier occurrences (pH, pH.1).
ColumnNames(header) ==
    [c \in 1..Len(header) |->
        LET k == Cardinality({ b \in 1..(c - 1) : header[b] = header[c] })
        IN  IF k = 0 THEN header[c] ELSE header[c] \o "." \o Numeral(k)]

\* pd.read_csv on a parsable file.
ReadCsv(file) ==
    LET ls == DataLines(file)
        w == Len(file.header)
        dt == [c \in 1..w |-> InferDtype(ls, c)]
    IN  Frame(ColumnNames(file.header), dt,
              [i \in 1..Len(ls) |-> [c \in 1..w |-> ParseCell(ls[i][c], dt[c])]])

\* ------------------------------------------------------- median imputation
IsNumberColumn(df, c) == df.dtypes[c] = "number"

\* df.select_dtypes(include="number").columns, as column positions.
NumericCols(df) == { c \in 1..Len(df.columns) : IsNumberColumn(df, c) }

RECURSIVE NonMissing(_, _, _)
\* The non-NaN values of column c, in row order, from row i on.
NonMissing(df, c, i) ==
    IF i > Len(df.rows) THEN <<>>
    ELSE IF df.rows[i][c] = NaN THEN NonMissing(df, c, i + 1)
         ELSE <<df.rows[i][c]>> \o NonMissing(df, c, i + 1)

\* Values in half units, for comparing and averaging.
Halves(v) == 2 * v.n + v.h

RECURSIVE Insert(_, _)
Insert(v, sorted) ==
    IF sorted = <<>> THEN <<v>>
    ELSE IF Halves(v) <= Halves(Head(sorted)) THEN <<v>> \o sorted
         ELSE <<Head(sorted)>> \o Insert(v, Tail(sorted))

RECURSIVE Sort(_)
Sort(vals) == IF vals = <<>> THEN <<>> ELSE Insert(Head(vals), Sort(Tail(vals)))

\* The mean of two parsed (integer) values.
Mean2(a, b) == Num((a.n + b.n) \div 2, (a.n + b.n) % 2)

\* Mutant of Median: the middle of the values as they stand, never sorted.
MedianUnsorted(vals) ==
    LET n == Len(vals)
    IN  IF n = 0 THEN NaN
        ELSE IF n % 2 = 1 THEN vals[(n + 1) \div 2]
        ELSE Mean2(vals[n \div 2], vals[n \div 2 + 1])

\* Series.median() with skipna: NaN when there is no value at all.
Median(vals) ==
    LET s == Sort(vals)
        n == Len(s)
    IN  IF n = 0 THEN NaN
        ELSE IF n % 2 = 1 THEN s[(n + 1) \div 2]
        ELSE Mean2(s[n \div 2], s[n \div 2 + 1])

\* df[numeric_cols].median(): one value per numeric column.
ColumnMedian(df, c) == Median(NonMissing(df, c, 1))

\* Mutant of FillCell: every cell of a numeric column is overwritten.
FillCellOverwrites(df, i, c) ==
    IF c \in NumericCols(df) /\ ColumnMedian(df, c) # NaN
    THEN ColumnMedian(df, c)
    ELSE df.rows[i][c]

\* fillna with the medians: a NaN cell of a numeric column takes the median
\* of that column (which is NaN itself when the column has no value).
FillCell(df, i, c) ==
    IF c \in NumericCols(df) /\ df.rows[i][c] = NaN
    THEN ColumnMedian(df, c)
    ELSE df.rows[i][c]

\* df[numeric_cols] = df[numeric_cols].fillna(df[numeric_cols].median())
FillNa(df) ==
    Frame(df.columns, df.dtypes,
          [i \in 1..Len(df.rows) |->
              [c \in 1..Len(df.columns) |-> FillCell(df, i, c)]])

\* ---------------------------------------------------------------- load_data
FileNotFoundMsg(csv_path) == <<"File not found: ", csv_path>>
LoadErrorMsg(e) == <<"Error loading data: ", e>>

\* The exception pd.read_csv raises on the file, "" when it parses.
ReadError(file) ==
    CASE file.kind = "absent" -> "FileNotFoundError"
      [] file.kind = "unreadable" -> "PermissionError"
      [] file.kind = "malformed" -> "ParserError"
      [] file.kind = "empty" -> "EmptyDataError"
      [] file.kind = "undecodable" -> "UnicodeDecodeError"
      [] file.kind = "directory" -> "IsADirectoryError"
      [] OTHER -> ""

\* Mutant of Handler: only the FileNotFoundError clause is there.
HandlerFileNotFoundOnly(e) ==
    IF e = "FileNotFoundError" THEN "FileNotFoundError" ELSE "none"

\* The exception classes that do not derive from Exception: BaseException
\* itself, its direct built-in subclasses, asyncio's CancelledError and
\* Streamlit's script-control exceptions.  Every other class does.
NotAnException ==
    { "BaseException", "KeyboardInterrupt", "SystemExit", "GeneratorExit",
      "BaseExceptionGroup", "CancelledError", "ScriptControlException",
      "StopException", "RerunException" }

\* The except clause that handles e: the first whose class e belongs to.
\* `except Exception` takes every exception but those of NotAnException.
Handler(e) ==
    IF e = "FileNotFoundError" THEN "FileNotFoundError"
    ELSE IF e \notin NotAnException THEN "Exception"
    ELSE "none"

\* The body of load_data: the value returned, the st.error calls made and
\* the exception that leaves the function ("" when none does).
load_data(csv_path, disk) ==
    LET file == disk[csv_path]
        e == ReadError(file)
    IN  IF e = ""
        THEN [value |-> FillNa(ReadCsv(file)), msgs |-> <<>>, raised |-> ""]
        ELSE CASE Handler(e) = "FileNotFoundError" ->
                    [value |-> None, msgs |-> <<FileNotFoundMsg(csv_path)>>,
                     raised |-> ""]
               [] Handler(e) = "Exception" ->
                    [value |-> None, msgs |-> <<LoadErrorMsg(e)>>, raised |-> ""]
               [] OTHER ->
                    [value |-> None, msgs |-> <<>>, raised |-> e]

\* ------------------------------------------------------------ st.cache_data
NoEntry == [set |-> FALSE, value |-> None, msgs |-> <<>>]
Entry(res) == [set |-> TRUE, value |-> res.value, msgs |-> res.msgs]

\* Mutant of CachedCall: the decorator is missing, every call runs the body.
UncachedCall(store, csv_path, disk) ==
    LET res == load_data(csv_path, disk)
    IN  [store |-> [store EXCEPT ![csv_path] = Entry(res)],
         value |-> res.value, msgs |-> res.msgs, raised |-> res.raised,
         read |-> TRUE]

\* A call of the memoised load_data: a hit returns the stored value and
\* replays the stored st.error elements; a miss runs the body and stores both
\* (nothing is stored when the body raises).
CachedCall(store, csv_path, disk) ==
    IF store[csv_path].set
    THEN [store |-> store, value |-> store[csv_path].value,
          msgs |-> store[csv_path].msgs, raised |-> "", read |-> FALSE]
    ELSE LET res == load_data(csv_path, disk)
         IN  [store |-> IF res.raised = ""
                        THEN [store EXCEPT ![csv_path] = Entry(res)]
                        ELSE store,
              value |-> res.value, msgs |-> res.msgs, raised |-> res.raised,
              read |-> TRUE]

\* ------------------------------------------------------------ page routing
\* The options of the sidebar radio.
RadioOptions ==
    <<"Home", "Dataset Overview", "Parameter Trends", "Distribution",
      "Potability", "About">>

\* The page names the if/elif chain compares with, in the order it tests them.
BranchNames ==
    <<"Home", "Dataset Overview", "Parameter Trends", "Distribution",
      "Potability", "About">>

RECURSIVE FirstMatch(_, _)
\* The branches an if/elif chain executes: the first whose test holds.
FirstMatch(pg, i) ==
    IF i > Len(BranchNames) THEN {}
    ELSE IF pg = BranchNames[i] THEN {BranchNames[i]}
    ELSE FirstMatch(pg, i + 1)

\* Mutant of Route: the chain has lost its first branch.
RouteWithoutFirstBranch(pg) == FirstMatch(pg, 2)

Route(pg) == FirstMatch(pg, 1)

\* ------------------------------------------------------------ the renderers
HeadRows == 50
NoneKey == "None"

Blank ==
    [ran |-> {}, kind |-> "content", text |-> "", options |-> <<>>,
     indexed |-> "", sample |-> 0, shape |-> <<0, 0>>, missing |-> <<>>,
     counts |-> {}, errors |-> <<>>,
     footer |-> TRUE]

Warning(base, text) == [base EXCEPT !.kind = "warning", !.text = text]

\* An uncaught exception ends the run: nothing after it is shown.
Raised(base, e) == [base EXCEPT !.kind = "exception", !.text = e, !.footer = FALSE]

ColumnIndex(df, name) ==
    IF \E c \in 1..Len(df.columns) : df.columns[c] = name
    THEN CHOOSE c \in 1..Len(df.columns) : df.columns[c] = name
    ELSE 0

HasColumn(df, name) == ColumnIndex(df, name) # 0

\* st.image of a local path raises when the file cannot be opened.
RenderHome(present) ==
    IF present THEN Blank ELSE Raised(Blank, "MediaFileStorageError")

\* data.isnull().sum(): the NaN count of every column.
NullCounts(df) ==
    [c \in 1..Len(df.columns) |->
        Cardinality({ i \in 1..Len(df.rows) : df.rows[i][c] = NaN })]

RenderOverview(df) ==
    IF ~df.isNone
    THEN [Blank EXCEPT !.sample = IF Len(df.rows) < HeadRows
                                  THEN Len(df.rows) ELSE HeadRows,
                       !.shape = <<Len(df.rows), Len(df.columns)>>,
                       !.missing = NullCounts(df)]
    ELSE Warning(Blank, "Dataset not found. Please add your CSV in the data folder.")

\* [col for col in data.columns if col != "Potability"]
Parameters(df) == SelectSeq(df.columns, LAMBDA col : col # "Potability")

\* st.selectbox: the option chosen, the first by default, None without options.
Selectbox(options, pick) ==
    IF options = <<>> THEN NoneKey
    ELSE IF pick \in 1..Len(options) THEN options[pick]
    ELSE options[1]

\* The column has a NaN cell / nothing but NaN cells.
HasNaN(df, c) == \E i \in 1..Len(df.rows) : df.rows[i][c] = NaN
AllNaN(df, c) == \A i \in 1..Len(df.rows) : df.rows[i][c] = NaN

\* A text column goes through matplotlib's category converter, which takes
\* strings only: a NaN among them raises.
CategoryError(df, c) ==
    IF df.dtypes[c] = "object" /\ HasNaN(df, c) THEN "TypeError" ELSE ""

\* ax.plot(data[selected_param]): NaN in a numeric column is a gap in the line.
PlotError(df, c) == CategoryError(df, c)

\* ax.hist(data[selected_param], bins=20): numpy.histogram has no finite
\* range for a numeric column that holds nothing but NaN.
HistError(df, c) ==
    IF CategoryError(df, c) # "" THEN CategoryError(df, c)
    ELSE IF df.dtypes[c] = "number" /\ df.rows # <<>> /\ AllNaN(df, c)
    THEN "ValueError"
    ELSE ""

\* data[selected_param] and the chart drawn from it.
RenderChart(df, pick, noData, chart) ==
    IF ~df.isNone
    THEN LET parameters == Parameters(df)
             selected_param == Selectbox(parameters, pick)
             shown == [Blank EXCEPT !.options = parameters,
                                    !.indexed = selected_param]
             c == ColumnIndex(df, selected_param)
             e == IF chart = "plot" THEN PlotError(df, c) ELSE HistError(df, c)
         IN  IF ~HasColumn(df, selected_param) THEN Raised(shown, "KeyError")
             ELSE IF e # "" THEN Raised(shown, e)
             ELSE shown
    ELSE Warning(Blank, noData)

RenderTrends(df, pick) ==
    RenderChart(df, pick, "No data available for trends.", "plot")

RenderDistribution(df, pick) ==
    RenderChart(df, pick, "No data available for distribution.", "hist")

\* Series.value_counts(): the count of every distinct non-NaN value.
ValueCounts(df, c) ==
    { [value |-> v,
       count |-> Cardinality({ i \in 1..Len(df.rows) : df.rows[i][c] = v })]
      : v \in { df.rows[i][c] : i \in 1..Len(df.rows) } \ {NaN} }

RenderPotability(df) ==
    IF ~df.isNone
    THEN IF HasColumn(df, "Potability")
         THEN [Blank EXCEPT !.indexed = "Potability",
                            !.counts = ValueCounts(df, ColumnIndex(df, "Potability"))]
         ELSE Warning(Blank, "No 'Potability' column found in dataset.")
    ELSE Warning(Blank, "No data available for Potability analysis.")

RenderAbout == Blank

\* The body of one branch of the chain.
RenderBranch(name, df, pick, present) ==
    CASE name = "Home" -> RenderHome(present)
      [] name = "Dataset Overview" -> RenderOverview(df)
      [] name = "Parameter Trends" -> RenderTrends(df, pick)
      [] name = "Distribution" -> RenderDistribution(df, pick)
      [] name = "Potability" -> RenderPotability(df)
      [] name = "About" -> RenderAbout

\* Lines 55-173: the branch the chain selects, then the footer.
Render(pg, df, pick, present) ==
    LET ran == Route(pg)
    IN  IF ran = {} THEN Blank
        ELSE [RenderBranch(CHOOSE b \in ran : TRUE, df, pick, present)
                EXCEPT !.ran = ran]

\* -------------------------------------------------------------------- state
Sessions == {"s1", "s2"}
NotConnected == "-"

LoadSession == "s1"

VARIABLES
    disk,       \* path -> the file there
    asset,      \* whether assets/cover.jpg can be opened
    cache,      \* st.cache_data's store for load_data: path -> entry
    lastLoad,   \* the latest call of load_data: did it read the file, and which
    page,       \* session -> the value of the sidebar radio
    pick,       \* session -> the selectbox choice (0: the default)
    data,       \* session -> the script's global `data` in its latest run
    out         \* session -> what the latest run displayed

vars == <<disk, asset, cache, lastLoad, page, pick, data, out>>

NoCall == [called |-> FALSE, read |-> FALSE, file |-> Absent]

InitWith(files, assets) ==
    /\ \E f \in files : disk = [p \in Paths |-> f]
    /\ asset \in assets
    /\ cache = [p \in Paths |-> NoEntry]
    /\ lastLoad = NoCall
    /\ page = [s \in Sessions |-> NotConnected]
    /\ pick = [s \in Sessions |-> 0]
    /\ data = [s \in Sessions |-> None]
    /\ out = [s \in Sessions |-> Blank]

\* One run of the script for session s, with the widget values pg and i:
\* line 37 (data = load_data()), lines 47-50 (the radio), lines 55-173.
Run(s, pg, i) ==
    LET call == CachedCall(cache, DefaultPath, disk)
    IN  /\ cache' = call.store
        /\ lastLoad' = [called |-> TRUE, read |-> call.read,
                        file |-> disk[DefaultPath]]
        /\ page' = [page EXCEPT ![s] = pg]
        /\ pick' = [pick EXCEPT ![s] = i]
        /\ data' = [data EXCEPT ![s] = call.value]
        /\ out' = [out EXCEPT ![s] =
                     IF call.raised # "" THEN Raised(Blank, call.raised)
                     ELSE [Render(pg, call.value, i, asset)
                             EXCEPT !.errors = call.msgs]]
        /\ UNCHANGED <<disk, asset>>

\* A browser opens the app: the radio shows its first option.
Connect(s) ==
    /\ page[s] = NotConnected
    /\ Run(s, RadioOptions[1], 0)

\* The user picks another page in the sidebar; the page's widgets are new.
SelectPage(s, pg) ==
    /\ page[s] # NotConnected
    /\ pg # page[s]
    /\ Run(s, pg, 0)

\* The user picks another parameter in the selectbox of the page shown.
SelectParam(s, i) ==
    /\ page[s] \in {"Parameter Trends", "Distribution"}
    /\ i \in 1..Len(out[s].options)
    /\ i # pick[s]
    /\ Run(s, page[s], i)

Untouched == UNCHANGED <<asset, cache, lastLoad, page, pick, data, out>>

\* The environment: the CSV file is removed, damaged, protected or rewritten.
FileChange(f) ==
    /\ disk[DefaultPath] # f
    /\ disk' = [disk EXCEPT ![DefaultPath] = f]
    /\ Untouched

\* The dashboard: sessions and the file system, in any order.
Init == InitWith(DashFiles, BOOLEAN)

Next ==
    \/ \E s \in Sessions : Connect(s)
    \/ \E s \in Sessions : \E pg \in { RadioOptions[k] : k \in 1..Len(RadioOptions) } :
          SelectPage(s, pg)
    \/ \E s \in Sessions : \E i \in 1..2 : SelectParam(s, i)
    \/ \E f \in DashFiles : FileChange(f)

Spec == Init /\ [][Next]_vars

\* load_data on its own: the first run of the script over every file.
InitLoad == InitWith(Files, {TRUE})

NextLoad == Connect(LoadSession)

SpecLoad == InitLoad /\ [][NextLoad]_vars

\* =================================================================== claims
\* The file load_data read, the Dataset it returned, and the data lines of
\* the file (the rows of the source are its non-blank lines).
Src == disk[DefaultPath]
Df == cache[DefaultPath].value

\* An empty line of the file: it has no character at all, which takes a
\* one-column file and a missing field.
IsEmptyLine(l) == Len(l) = 1 /\ l[1] = ""

\* The data lines of the file that are not empty, by position in the file.
Records == { i \in 1..Len(Src.lines) : ~IsEmptyLine(Src.lines[i]) }

\* The position in the file of the k-th record, by counting.
RecordAt(k) ==
    CHOOSE i \in Records : Cardinality({ j \in Records : j <= i }) = k

\* The rows of the source: its records, in file order.
SrcLines == [k \in 1..Cardinality(Records) |-> Src.lines[RecordAt(k)]]
LoadedOk == cache[DefaultPath].set /\ ~Df.isNone

Digit(n) == CASE n = 0 -> "0" [] n = 1 -> "1" [] n = 2 -> "2" [] OTHER -> "?"

\* The cell holds the value the field tok spells.
Shows(cell, tok) ==
    \/ cell.k = "str" /\ cell.s = tok
    \/ cell.k = "num" /\ cell.h = 0 /\ Digit(cell.n) = tok

\* C1 (as claimed): in a loaded Dataset no numeric column has a missing
\* value in any row, whatever the input table.
C1_NoMissingInNumericColumns ==
    LoadedOk =>
        \A c \in 1..Len(Df.columns) :
            Df.dtypes[c] = "number" =>
                \A i \in 1..Len(Df.rows) : Df.rows[i][c] # NaN

\* The rows of the source that hold a value in column c.
Present(ls, c) == { i \in 1..Len(ls) : ~IsNA(ls[i][c]) }

\* The k-th smallest source value of column c, by counting.
KthSmallest(ls, c, k) ==
    CHOOSE v \in { ToNumber(ls[i][c]) : i \in Present(ls, c) } :
        /\ Cardinality({ i \in Present(ls, c) : ToNumber(ls[i][c]) < v }) < k
        /\ k <= Cardinality({ i \in Present(ls, c) : ToNumber(ls[i][c]) <= v })

\* Twice the standard median of the source values of column c.
TwiceMedian(ls, c) ==
    LET n == Cardinality(Present(ls, c))
    IN  IF n % 2 = 1 THEN 2 * KthSmallest(ls, c, (n + 1) \div 2)
        ELSE KthSmallest(ls, c, n \div 2) + KthSmallest(ls, c, n \div 2 + 1)

\* C2: in every numeric column with at least one source value, each cell
\* that was missing in the source holds the median of that column's own
\* source values (middle value for an odd count, mean of the two middle
\* values for an even count).
C2_MissingCellsHoldColumnMedian ==
    LoadedOk =>
        LET src == SrcLines
        IN  \A c \in 1..Len(Df.columns) :
                (Df.dtypes[c] = "number" /\ Present(src, c) # {}) =>
                    \A i \in 1..Len(Df.rows) :
                        IsNA(src[i][c]) =>
                            /\ Df.rows[i][c].k = "num"
                            /\ Halves(Df.rows[i][c]) = TwiceMedian(src, c)

\* C2 witness: a column with three unequal source values and a gap, filled,
\* next to another numeric column whose gap is filled with a different value.
C2_Witness ==
    /\ LoadedOk
    /\ Len(Df.columns) = 2
    /\ \E i, j \in 1..Len(Df.rows) :
          /\ Cardinality(Present(SrcLines, 1)) = 3
          /\ { SrcLines[r][1] : r \in Present(SrcLines, 1) } = {"0", "2"}
          /\ IsNA(SrcLines[i][1]) /\ Df.rows[i][1].k = "num"
          /\ IsNA(SrcLines[j][2]) /\ Df.rows[j][2].k = "num"
          /\ Df.rows[i][1] # Df.rows[j][2]

DistinctNames(header) ==
    \A a, b \in 1..Len(header) : header[a] = header[b] => a = b

C4_LabelNotImputed ==
    (LoadedOk /\ HasColumn(Df, "Potability")) =>
        LET c == ColumnIndex(Df, "Potability")
        IN  \A i \in 1..Len(Df.rows) :
                /\ IsNA(SrcLines[i][c]) => Df.rows[i][c] = NaN
                /\ Df.rows[i][c] # NaN => Shows(Df.rows[i][c], SrcLines[i][c])

\* C5: load_data always returns: with a Dataset and no message when the file
\* parses; otherwise with no Dataset and exactly one message, which is the
\* file-not-found message naming the path when the path does not exist and
\* the generic load-error message for every other failure.
C5_FailureIsReportedOnce ==
    lastLoad.called =>
        LET d == data[LoadSession]
            shown == out[LoadSession].errors
        IN  /\ cache[DefaultPath].set
            /\ out[LoadSession].kind # "exception"
            /\ d.isNone <=> Src.kind # "csv"
            /\ ~d.isNone => shown = <<>>
            /\ d.isNone =>
                  /\ Len(shown) = 1
                  /\ Src.kind = "absent" =>
                        shown[1] = <<"File not found: ", DefaultPath>>
                  /\ Src.kind # "absent" =>
                        /\ Len(shown[1]) = 2
                        /\ shown[1][1] = "Error loading data: "

\* C5 witness: the path does not exist and the call has reported it.
C5_Witness ==
    /\ lastLoad.called
    /\ Src.kind = "absent"
    /\ data[LoadSession].isNone
    /\ out[LoadSession].errors = << <<"File not found: ", DefaultPath>> >>

DataPages == {"Dataset Overview", "Parameter Trends", "Distribution", "Potability"}
Connected(s) == page[s] # NotConnected

\* C6 (as claimed): without a Dataset every page renders without touching
\* the Dataset and without an uncaught error: the four data pages show a
\* warning, Home and About their content; with a Dataset that has no
\* Potability column only the Potability page shows a warning.
C6_EveryPageDegrades ==
    \A s \in Sessions :
        Connected(s) =>
            /\ data[s].isNone =>
                  /\ out[s].kind # "exception"
                  /\ out[s].indexed = ""
                  /\ page[s] \in DataPages => out[s].kind = "warning"
                  /\ page[s] \notin DataPages => out[s].kind = "content"
            /\ (~data[s].isNone /\ ~HasColumn(data[s], "Potability")) =>
                  /\ out[s].kind # "exception"
                  /\ out[s].kind = "warning" <=> page[s] = "Potability"

RECURSIVE SumCounts(_)
SumCounts(S) ==
    IF S = {} THEN 0
    ELSE LET e == CHOOSE e \in S : TRUE IN e.count + SumCounts(S \ {e})

\* C7 (as claimed): on the Potability page of a Dataset with a Potability
\* column (source cells 0, 1 or empty) the value counts add up to the number
\* of rows and every category counted is 0 or 1.
C7_CountsCoverRowsInZeroOne ==
    \A s \in Sessions :
        (page[s] = "Potability" /\ ~data[s].isNone
            /\ HasColumn(data[s], "Potability")) =>
            /\ SumCounts(out[s].counts) = Len(data[s].rows)
            /\ \A e \in out[s].counts : e.value \in {Num(0, 0), Num(1, 0)}

\* A run of the script took place in this step.
RunStep == page' # page \/ pick' # pick

\* C8: once load_data(path) has completed, its cache entry never changes and
\* no later run reads the file: every later run gets the stored result, a
\* Dataset or a failure with its message, also after the file has changed.
C8_LoadedOnce ==
    [][\A p \in Paths :
          cache[p].set =>
              /\ cache'[p] = cache[p]
              /\ RunStep =>
                    /\ ~lastLoad'.read
                    /\ \A s \in Sessions :
                          page'[s] # page[s] \/ pick'[s] # pick[s] =>
                              /\ data'[s] = cache[p].value
                              /\ out'[s].errors = cache[p].msgs]_vars

\* C8 witness: the stored result is a failure, and the latest call returned
\* it without reading although the file then on disk would have loaded.
C8_Witness ==
    /\ cache[DefaultPath].set
    /\ cache[DefaultPath].value.isNone
    /\ lastLoad.called /\ ~lastLoad.read
    /\ lastLoad.file.kind = "csv"
    /\ \E s \in Sessions : Connected(s) /\ data[s].isNone /\ Len(out[s].errors) = 1

\* C9 (as claimed): on Parameter Trends and Distribution the options are the
\* columns other than Potability, no selection raises, and the Dataset is
\* only indexed with a column it has.
C9_ChartsNeverFail ==
    \A s \in Sessions :
        (page[s] \in {"Parameter Trends", "Distribution"} /\ ~data[s].isNone) =>
            /\ out[s].options = Parameters(data[s])
            /\ out[s].kind # "exception"
            /\ HasColumn(data[s], out[s].indexed)

\* C10: every run executes exactly one renderer, the one of the current
\* selection; what is shown depends only on the selection, the widget value
\* and the load result, not on the session's earlier pages; a selection
\* changes only when the user picks a page; every run sees the Dataset the
\* load produced.
C10_OneRendererPerSelection ==
    /\ [](\A s \in Sessions :
            Connected(s) =>
                /\ out[s].ran = {page[s]}
                /\ cache[DefaultPath].set /\ data[s] = cache[DefaultPath].value
                /\ \A t \in Sessions :
                      (page[t] = page[s] /\ pick[t] = pick[s]) => out[t] = out[s])
    /\ [][\A s \in Sessions :
            (Connected(s) /\ page'[s] # page[s]) =>
                \E pg \in { RadioOptions[k] : k \in 1..Len(RadioOptions) } :
                    SelectPage(s, pg)]_vars

\* C10 witness: two sessions with different histories, on different pages of
\* the same Dataset, each showing the page it selected.
C10_Witness ==
    /\ page["s1"] = "Potability" /\ out["s1"].ran = {"Potability"}
    /\ page["s2"] = "About" /\ out["s2"].ran = {"About"}
    /\ ~data["s1"].isNone /\ data["s1"] = data["s2"]

====
